---- MODULE Spec2Model ----
(***************************************************************************)
(* SkillOne backend (src/SkillOne/backend/main.py): the learning-path      *)
(* engine of generate_learning_path and its datastore helpers.             *)
(*                                                                         *)
(* Numbers.  Similarities are integers in hundredths (cosine 1.0 = 100).   *)
(* A combined score 0.6*t + 0.4*s is kept as 6*t + 4*s (thousandths), and  *)
(* every boost factor f is kept as 10*f, a course that gets no boost being *)
(* multiplied by 10, so that all final scores share the unit 1/100000 and  *)
(* compare exactly as the real products do (float rounding is not          *)
(* modelled).                                                              *)
(*                                                                         *)
(* Library code.  scikit-learn, sentence-transformers and networkx are not *)
(* part of the repository.  A text is the set of its words; the fitted     *)
(* TF-IDF vocabulary is the set of non-stop words of the fitted documents; *)
(* a TF-IDF row is the set of in-vocabulary words of a document and the    *)
(* cosine of two rows is their overlap in percent; an embedding is a unit  *)
(* vector along an axis of the plane.                                      *)
(***************************************************************************)
EXTENDS Integers, Sequences, FiniteSets, TLC

\* ------------------------------------------------------------- bounds
\* Catalog size and number of prerequisite references of the handler runs.
MaxCourses == 2
MaxRefs == 2
\* Catalog size and number of prerequisite references of the traversal runs.
MaxDfsCourses == 3
MaxDfsRefs == 3
\* Frames the traversal's call stack may hold: more than any traversal of
\* MaxDfsCourses courses needs.
MaxDepth == 6
\* Requests in flight together.
MaxRequests == 2

\* ---------------------------------------------------- program constants
\* [:12] of filtered_path
PathLimit == 12
\* 0.6 * tfidf_similarities + 0.4 * semantic_similarities
TfidfWeight == 6
SemanticWeight == 4
\* combined_scores[i] *= 1.3 / 1.2 / 1.1
EducationBoost == 13
BeginnerBoost == 12
ProgressBoost == 11
\* level_mapping.get(..., 2) and difficulty_mapping.get(..., 1)
DefaultLevel == 2
DefaultDifficulty == 1

\* ------------------------------------------------------------ helpers
Range(s) == {s[i] : i \in DOMAIN s}
Abs(x) == IF x < 0 THEN -x ELSE x
Min(a, b) == IF a < b THEN a ELSE b

\* Sequences over S of length at most n.
SeqsUpTo(S, n) == UNION {[1..k -> S] : k \in 0..n}

\* ------------------------------------------------------ text relevance
\* TfidfVectorizer(stop_words='english', ...): stop words are dropped.
StopWords == {"the"}
Tokens(words) == words \ StopWords

\* f"{title} {description} {' '.join(tags)}"
course_text(c) == {c.title} \cup c.tags

\* f"{career_goal} {' '.join(desired_skills)} {' '.join(interests or [])}"
learner_text(p) == {p.career_goal} \cup Range(p.desired_skills) \cup Range(p.interests)

\* The class attribute MLModels._tfidf_vectorizer before get_tfidf_vectorizer.
NoVectorizer == [created |-> FALSE, vocabulary |-> {}]

\* MLModels.get_tfidf_vectorizer: the one instance, built on first use.
get_tfidf_vectorizer(vec) == IF vec.created THEN vec ELSE [created |-> TRUE, vocabulary |-> {}]

\* A wrong fit_transform: a vectorizer that already holds a vocabulary only
\* transforms with it (a fit that is done once, like the lazy construction).
fit_transform_once(vec, docs) ==
    LET v == IF vec.vocabulary # {} THEN vec.vocabulary
             ELSE UNION {Tokens(docs[i]) : i \in DOMAIN docs}
    IN [vectorizer |-> [vec EXCEPT !.vocabulary = v],
        matrix |-> [i \in DOMAIN docs |-> Tokens(docs[i]) \cap v],
        error |-> v = {}]

\* tfidf_vectorizer.fit_transform(docs): the vocabulary is rebuilt from docs
\* and kept in the instance; the rows are those of docs under it.  An empty
\* vocabulary raises ValueError.
fit_transform(vec, docs) ==
    LET v == UNION {Tokens(docs[i]) : i \in DOMAIN docs}
    IN [vectorizer |-> [vec EXCEPT !.vocabulary = v],
        matrix |-> [i \in DOMAIN docs |-> Tokens(docs[i]) \cap v],
        error |-> v = {}]

\* cosine_similarity of two TF-IDF rows, in hundredths.
cosine_similarity(a, b) ==
    IF a = {} \/ b = {} THEN 0
    ELSE (100 * Cardinality(a \cap b)) \div Cardinality(a \cup b)

\* cosine_similarity of two embeddings (unit vectors), in hundredths.
embedding_similarity(e, f) == 100 * (e[1] * f[1] + e[2] * f[2])

\* tfidf_similarities of the rows of a fitted matrix: the learner's row is
\* the last one, tfidf_matrix[-1], the courses' rows are tfidf_matrix[:-1].
tfidf_similarities(matrix) ==
    [i \in 0..(Len(matrix) - 2) |-> cosine_similarity(matrix[Len(matrix)], matrix[i + 1])]

\* semantic_similarities of the encoded course texts against the learner's.
semantic_similarities(courses, profile) ==
    [i \in 0..(Len(courses) - 1) |->
        embedding_similarity(profile.embedding, courses[i + 1].embedding)]

\* combined_scores = 0.6 * tfidf_similarities + 0.4 * semantic_similarities
combined(tfidf, semantic) == TfidfWeight * tfidf + SemanticWeight * semantic

\* ---------------------------------------------------- metadata booster
level_mapping(level, default) ==
    CASE level = "High School" -> 1
      [] level = "Undergraduate" -> 2
      [] level = "Graduate" -> 3
      [] level = "Professional" -> 4
      [] OTHER -> default

difficulty_mapping(level, default) ==
    CASE level = "Beginner" -> 1
      [] level = "Intermediate" -> 2
      [] level = "Advanced" -> 3
      [] OTHER -> default

\* A wrong education rule: the comparison is strict, so a course one level
\* away from the learner gets no boost.
education_boost_strict(score, course_level, learner_level) ==
    IF Abs(course_level - learner_level) < 1 THEN score * EducationBoost
    ELSE score * 10

\* if abs(course_level - learner_level) <= 1: combined_scores[i] *= 1.3
education_boost(score, course_level, learner_level) ==
    IF Abs(course_level - learner_level) <= 1 THEN score * EducationBoost
    ELSE score * 10

\* if learner_level == 1 and course_difficulty == 1: *= 1.2
\* elif learner_level >= 2 and course_difficulty >= 2: *= 1.1
difficulty_boost(score, course_difficulty, learner_level) ==
    IF learner_level = 1 /\ course_difficulty = 1 THEN score * BeginnerBoost
    ELSE IF learner_level >= 2 /\ course_difficulty >= 2 THEN score * ProgressBoost
    ELSE score * 10

\* One turn of the boosting loop, for one course.
boosted(score, education_level, difficulty_level, learner_education_level) ==
    LET learner_level == level_mapping(learner_education_level, DefaultLevel)
        course_level == level_mapping(education_level, DefaultLevel)
        course_difficulty == difficulty_mapping(difficulty_level, DefaultDifficulty)
    IN difficulty_boost(education_boost(score, course_level, learner_level),
                        course_difficulty, learner_level)

\* ------------------------------------------------- prerequisite graph
\* course_id_map = {course['id']: i for i, course in enumerate(courses)}
course_id_map(courses) ==
    [id \in {courses[k].id : k \in DOMAIN courses} |->
        (CHOOSE k \in DOMAIN courses :
            /\ courses[k].id = id
            /\ \A j \in DOMAIN courses : courses[j].id = id => j <= k) - 1]

\* The successors of one node, in the order G.add_edge first saw them:
\* references to ids outside the catalog add no edge, a repeated one adds
\* nothing new.
RECURSIVE add_edges(_, _, _)
add_edges(prereq_ids, id_map, acc) ==
    IF prereq_ids = <<>> THEN acc
    ELSE LET prereq_id == Head(prereq_ids)
         IN add_edges(Tail(prereq_ids), id_map,
                IF prereq_id \in DOMAIN id_map /\ id_map[prereq_id] \notin Range(acc)
                THEN Append(acc, id_map[prereq_id])
                ELSE acc)

\* G as its adjacency: G[i] is the sequence G.successors(i).
build_graph(courses) ==
    LET id_map == course_id_map(courses)
    IN [i \in 0..(Len(courses) - 1) |->
            add_edges(courses[i + 1].prerequisite_course_ids, id_map, <<>>)]

\* ------------------------------------------------------- path selector
\* def dfs(node), on the state [visited, path_stack]; visit_all is its loop
\* `for prereq in G.successors(node): dfs(prereq)`.
RECURSIVE dfs(_, _, _)
RECURSIVE visit_all(_, _, _)
dfs(G, node, st) ==
    IF node \in st.visited THEN st
    ELSE LET entered == [st EXCEPT !.visited = @ \cup {node}]
             after == visit_all(G, G[node], entered)
         IN [after EXCEPT !.path_stack = Append(@, node)]

visit_all(G, nodes, st) ==
    IF nodes = <<>> THEN st
    ELSE visit_all(G, Tail(nodes), dfs(G, Head(nodes), st))

\* sorted(range(len(courses)), key=lambda i: course_scores[i], reverse=True):
\* descending score, equal scores in catalog order (the sort is stable).
RECURSIVE sorted_from(_, _)
sorted_from(course_scores, left) ==
    IF left = {} THEN <<>>
    ELSE LET first == CHOOSE i \in left : \A j \in left :
                          \/ course_scores[i] > course_scores[j]
                          \/ course_scores[i] = course_scores[j] /\ i <= j
         IN <<first>> \o sorted_from(course_scores, left \ {first})

sorted_indices(course_scores) == sorted_from(course_scores, DOMAIN course_scores)

\* for idx in sorted_indices: if idx not in visited: dfs(idx)
RECURSIVE traverse(_, _, _)
traverse(G, roots, st) ==
    IF roots = <<>> THEN st
    ELSE traverse(G, Tail(roots),
            IF Head(roots) \in st.visited THEN st ELSE dfs(G, Head(roots), st))

Reverse(s) == [k \in 1..Len(s) |-> s[Len(s) + 1 - k]]

\* path_stack after the root loop and path_stack.reverse()
path_stack_of(G, course_scores) ==
    Reverse(traverse(G, sorted_indices(course_scores),
                     [visited |-> {}, path_stack |-> <<>>]).path_stack)

\* [x for x in s if keep(x)]
RECURSIVE positive_only(_, _)
positive_only(s, course_scores) ==
    IF s = <<>> THEN <<>>
    ELSE (IF course_scores[Head(s)] > 0 THEN <<Head(s)>> ELSE <<>>)
         \o positive_only(Tail(s), course_scores)

\* filtered_path = [courses[i]['id'] for i in path_stack if course_scores[i] > 0][:12]
filtered_path_of(courses, path_stack, course_scores) ==
    LET kept == positive_only(path_stack, course_scores)
    IN [k \in 1..Min(Len(kept), PathLimit) |-> courses[kept[k] + 1].id]

\* ------------------------------------------------------------ inputs
CourseId(i) == "c" \o ToString(i)
\* An id that no course of any catalog has.
DanglingId == "c0"

\* What a course can look like, apart from its id and its prerequisites.
CourseKinds ==
    << [title |-> "python", tags |-> {}, embedding |-> <<1, 0>>,
        education_level |-> "Undergraduate", difficulty_level |-> "Beginner"],
       [title |-> "ml", tags |-> {"python", "the"}, embedding |-> <<1, 0>>,
        education_level |-> "Graduate", difficulty_level |-> "Advanced"],
       [title |-> "art", tags |-> {"the"}, embedding |-> <<0, 1>>,
        education_level |-> "Professional", difficulty_level |-> "Intermediate"],
       [title |-> "the", tags |-> {}, embedding |-> <<-1, 0>>,
        education_level |-> "", difficulty_level |-> ""] >>

\* The request bodies, apart from learner_id.
LearnerKinds ==
    << [career_goal |-> "ml", education_level |-> "Undergraduate",
        desired_skills |-> <<"python", "ml", "the", "art">>, interests |-> <<>>,
        embedding |-> <<1, 0>>],
       [career_goal |-> "art", education_level |-> "High School",
        desired_skills |-> <<>>, interests |-> <<"art">>,
        embedding |-> <<-1, 0>>],
       [career_goal |-> "the", education_level |-> "PhD",
        desired_skills |-> <<"the">>, interests |-> <<>>,
        embedding |-> <<0, 1>>] >>

LearnerIds == {"u1", "u2"}

Profiles ==
    {[learner_id |-> u, career_goal |-> LearnerKinds[k].career_goal,
      education_level |-> LearnerKinds[k].education_level,
      desired_skills |-> LearnerKinds[k].desired_skills,
      interests |-> LearnerKinds[k].interests,
      embedding |-> LearnerKinds[k].embedding] :
        u \in LearnerIds, k \in DOMAIN LearnerKinds}

\* The prerequisite references of a catalog of n courses, as (course, id)
\* pairs listed course by course: at most k of them, each to a course of the
\* catalog or to the dangling id.
RefSeqs(n, k) ==
    {s \in SeqsUpTo((0..(n - 1)) \X ({CourseId(i) : i \in 1..n} \cup {DanglingId}), k) :
        \A a, b \in DOMAIN s : a < b => s[a][1] <= s[b][1]}

RECURSIVE refs_of(_, _)
refs_of(refs, i) ==
    IF refs = <<>> THEN <<>>
    ELSE (IF Head(refs)[1] = i THEN <<Head(refs)[2]>> ELSE <<>>) \o refs_of(Tail(refs), i)

\* Course i (from 0) is of kind (i mod period) + shift, cyclically.
KindOf(i, shift, period) == CourseKinds[(((i % period) + shift) % Len(CourseKinds)) + 1]

Course(i, kind, prereq_ids) ==
    [id |-> CourseId(i + 1), title |-> kind.title, tags |-> kind.tags,
     embedding |-> kind.embedding, education_level |-> kind.education_level,
     difficulty_level |-> kind.difficulty_level,
     prerequisite_course_ids |-> prereq_ids]

\* Small catalogs with every arrangement of prerequisite references.
SmallCatalogs(maxn, maxrefs, shifts) ==
    UNION {{[i \in 1..n |->
                Course(i - 1, KindOf(i - 1, shift, Len(CourseKinds)), refs_of(refs, i - 1))] :
              shift \in shifts, refs \in RefSeqs(n, maxrefs)} :
           n \in 0..maxn}

\* Catalogs one course longer than the path may be, all of one kind or of
\* two kinds in turn, without prerequisites or with each course requiring
\* the one before it.
LargeCatalogs ==
    {[i \in 1..(PathLimit + 1) |->
        Course(i - 1, KindOf(i - 1, shift, period),
               IF chained /\ i > 1 THEN <<CourseId(i - 1)>> ELSE <<>>)] :
        shift \in 0..(Len(CourseKinds) - 1), period \in 1..2, chained \in BOOLEAN}

\* ----------------------------------------------------------- the state
VARIABLES
    \* the datastore
    courses_table,       \* table courses, in the order select("*") returns it
    learner_profiles,    \* table learner_profiles: a set of rows, one per learner_id
    learning_paths,      \* table learning_paths: its rows in insertion order
    career_goal_logs,    \* table career_goal_logs: a set of rows, one per career_goal
    \* the server process
    tfidf_vectorizer,    \* MLModels._tfidf_vectorizer
    semantic_model,      \* MLModels._semantic_model is loaded
    \* the requests to generate_learning_path
    pc,                  \* where each request is in the handler
    profile,             \* each request's body
    local,               \* each request's local variables
    response,            \* what each request returned
    logged,              \* what the helpers logged with logger.error, per request
    \* one run of the traversal, statement by statement
    at, G, course_scores, roots, visited, path_stack, calls,
    \* one run of the boosting loop on a pair of courses
    booster

store == <<courses_table, learner_profiles, learning_paths, career_goal_logs>>
process == <<tfidf_vectorizer, semantic_model>>
requests == <<pc, profile, local, response, logged>>
traversal == <<at, G, course_scores, roots, visited, path_stack, calls>>
vars == <<store, process, requests, traversal, booster>>

Requests == 1..MaxRequests

\* ------------------------------------------------- the handler's pieces
\* course_scores = {i: float(combined_scores[i]) ...} after the boosting loop
course_scores_of(courses, learner, tfidf) ==
    LET semantic == semantic_similarities(courses, learner)
    IN [i \in 0..(Len(courses) - 1) |->
            boosted(combined(tfidf[i], semantic[i]), courses[i + 1].education_level,
                    courses[i + 1].difficulty_level, learner.education_level)]

\* round(x, 4) of a positive score: from 1/100000 to 1/10000, half to even.
round4(x) ==
    LET q == x \div 10
        rest == x % 10
    IN IF rest > 5 \/ (rest = 5 /\ q % 2 = 1) THEN q + 1 ELSE q

NoReasoning == [matched_skills |-> <<>>, career_goal |-> ""]

\* The locals of generate_learning_path before it has fetched the courses.
NoLocals ==
    [courses |-> <<>>, tfidf_similarities |-> <<>>, course_scores |-> <<>>,
     path_stack |-> <<>>, filtered_path |-> <<>>, pathway_details |-> <<>>, reasoning |-> NoReasoning,
     current |-> 0]

\* Steps 3 to 6 of generate_learning_path and its reasoning string: from
\* the fetched courses and the lexical similarities to the locals that the
\* saving and the response read.
select_path(courses, learner, tfidf) ==
    LET scores == course_scores_of(courses, learner, tfidf)
        stack == path_stack_of(build_graph(courses), scores)
        path == filtered_path_of(courses, stack, scores)
        id_map == course_id_map(courses)
    IN [courses |-> courses, tfidf_similarities |-> tfidf, course_scores |-> scores,
        path_stack |-> stack, filtered_path |-> path,
        pathway_details |->
            [k \in 1..Len(path) |->
                [id |-> path[k], title |-> courses[id_map[path[k]] + 1].title,
                 score |-> round4(scores[id_map[path[k]]])]],
        reasoning |->
            [matched_skills |->
                SubSeq(learner.desired_skills, 1, Min(3, Len(learner.desired_skills))),
             career_goal |-> learner.career_goal],
        current |-> 0]

\* str(k) of a catalog index, and of a course id (a string already).
str_index(i) == ToString(i)
str_id(id) == id

\* {str(k): v for k, v in scores.items()} in save_learning_path
relevance_scores_of(scores) ==
    [key \in {str_index(i) : i \in DOMAIN scores} |->
        scores[CHOOSE i \in DOMAIN scores : str_index(i) = key]]

\* scores={str(courses[i]['id']): float(course_scores[i])
\*         for i in path_stack if course_scores[i] > 0}
response_scores_of(courses, stack, scores) ==
    LET kept == {i \in Range(stack) : scores[i] > 0}
    IN [key \in {str_id(courses[i + 1].id) : i \in kept} |->
        scores[CHOOSE i \in kept : str_id(courses[i + 1].id) = key]]

NoResponse ==
    [status_code |-> 0, detail |-> "", learning_path |-> <<>>, scores |-> <<>>,
     reasoning |-> NoReasoning, total_courses |-> 0, pathway_details |-> <<>>]

\* LearningPathResponse(...), returned with status 200.
LearningPathResponse(l) ==
    [status_code |-> 200, detail |-> "", learning_path |-> l.filtered_path,
     scores |-> response_scores_of(l.courses, l.path_stack, l.course_scores),
     reasoning |-> l.reasoning, total_courses |-> Len(l.filtered_path),
     pathway_details |-> l.pathway_details]

\* What is raised: its class, and the status it carries if it is an
\* HTTPException.
HTTPException(status_code, detail) ==
    [class |-> "HTTPException", status_code |-> status_code, detail |-> detail]
ValueError == [class |-> "ValueError", status_code |-> 0, detail |-> "empty vocabulary"]
APIError(call) == [class |-> "APIError", status_code |-> 0, detail |-> call]

\* The classes that `except Exception` catches: HTTPException derives from
\* Exception like the others.
ExceptionClasses == {"Exception", "HTTPException", "ValueError", "APIError"}

\* What the client gets when e is raised inside the try of
\* generate_learning_path: `except Exception as e: raise HTTPException(500)`.
generate_learning_path_except(e) ==
    LET out == IF e.class \in ExceptionClasses
               THEN HTTPException(500, e.detail)
               ELSE e
    IN [NoResponse EXCEPT !.status_code = out.status_code, !.detail = out.detail]

\* The except clauses of the helpers: the error is logged and the helper
\* returns None.
save_learner_profile_except(e) == [raised |-> FALSE, logged |-> "Error saving profile"]

\* A wrong clause: the error is logged and raised again.
save_learning_path_reraise(e) == [raised |-> TRUE, logged |-> "Error saving path"]

save_learning_path_except(e) == [raised |-> FALSE, logged |-> "Error saving path"]

log_career_goal_except(e) == [raised |-> FALSE, logged |-> "Error logging career goal"]

\* upsert of one row into a table keyed by `key`.
upsert(table, row, key) == {t \in table : t[key] # row[key]} \cup {row}

\* .delete().eq("learner_id", learner_id)
delete_paths(paths, learner_id) ==
    [paths EXCEPT !.rows = SelectSeq(@, LAMBDA row : row.learner_id # learner_id)]

\* .insert({...}): the datastore gives the row its id.
insert_path(paths, learner_id, path, scores, reasoning) ==
    [rows |-> Append(paths.rows,
                [id |-> paths.next_id, learner_id |-> learner_id,
                 course_sequence |-> path,
                 relevance_scores |-> relevance_scores_of(scores),
                 reasoning |-> reasoning]),
     next_id |-> paths.next_id + 1]

\* The profile row that save_learner_profile writes.
profile_row(p) ==
    [learner_id |-> p.learner_id, career_goal |-> p.career_goal,
     education_level |-> p.education_level, desired_skills |-> p.desired_skills,
     interests |-> p.interests]

\* --------------------------------------------- generate_learning_path
\* The handler's `except Exception`: e was raised inside its try.
Raise(r, e) ==
    /\ response' = [response EXCEPT ![r] = generate_learning_path_except(e)]
    /\ pc' = [pc EXCEPT ![r] = "done"]

\* A datastore call of a helper raised: the helper's except clause logs it;
\* the handler goes on at `next` unless the clause raised again.
HelperFailed(r, clause, next) ==
    /\ logged' = [logged EXCEPT ![r] = Append(@, clause.logged)]
    /\ IF clause.raised
       THEN Raise(r, APIError(pc[r]))
       ELSE /\ pc' = [pc EXCEPT ![r] = next]
            /\ UNCHANGED response

\* await save_learner_profile(profile): the upsert succeeds.
SaveProfile(r) ==
    /\ pc[r] = "save_learner_profile"
    /\ learner_profiles' = upsert(learner_profiles, profile_row(profile[r]), "learner_id")
    /\ pc' = [pc EXCEPT ![r] = "fetch_courses"]
    /\ UNCHANGED <<courses_table, learning_paths, career_goal_logs, process,
                   profile, local, response, logged, traversal, booster>>

\* await save_learner_profile(profile): the upsert raises.
SaveProfileFails(r) ==
    /\ pc[r] = "save_learner_profile"
    /\ HelperFailed(r, save_learner_profile_except(APIError(pc[r])), "fetch_courses")
    /\ UNCHANGED <<store, process, profile, local, traversal, booster>>

\* courses = supabase.table("courses").select("*").execute().data, and
\* `if not courses: raise HTTPException(status_code=404, ...)`.
FetchCourses(r) ==
    /\ pc[r] = "fetch_courses"
    /\ local' = [local EXCEPT ![r].courses = courses_table]
    /\ IF courses_table = <<>>
       THEN Raise(r, HTTPException(404, "No courses found in database"))
       ELSE /\ pc' = [pc EXCEPT ![r] = "score"]
            /\ UNCHANGED response
    /\ UNCHANGED <<store, process, profile, logged, traversal, booster>>

\* The select on courses raises.
FetchCoursesFails(r) ==
    /\ pc[r] = "fetch_courses"
    /\ Raise(r, APIError("fetch_courses"))
    /\ UNCHANGED <<store, process, profile, local, logged, traversal, booster>>

\* The documents handed to fit_transform: course_texts + [learner_text].
documents(courses, learner) ==
    [i \in 1..(Len(courses) + 1) |->
        IF i <= Len(courses) THEN course_text(courses[i]) ELSE learner_text(learner)]

\* From "2. SEMANTIC ANALYSIS" to the reasoning string: no await in between.
\* fit_transform works on the process's one vectorizer.
Score(r) ==
    /\ pc[r] = "score"
    /\ LET fit == fit_transform(get_tfidf_vectorizer(tfidf_vectorizer),
                                documents(local[r].courses, profile[r]))
       IN /\ tfidf_vectorizer' = fit.vectorizer
          /\ IF fit.error
             THEN /\ Raise(r, ValueError)
                  /\ UNCHANGED <<semantic_model, local>>
             ELSE /\ semantic_model' = TRUE
                  /\ local' = [local EXCEPT ![r] =
                        select_path(local[r].courses, profile[r],
                                    tfidf_similarities(fit.matrix))]
                  /\ pc' = [pc EXCEPT ![r] = "delete_paths"]
                  /\ UNCHANGED response
    /\ UNCHANGED <<store, profile, logged, traversal, booster>>

\* save_learning_path: the delete succeeds.
DeletePaths(r) ==
    /\ pc[r] = "delete_paths"
    /\ learning_paths' = delete_paths(learning_paths, profile[r].learner_id)
    /\ pc' = [pc EXCEPT ![r] = "insert_path"]
    /\ UNCHANGED <<courses_table, learner_profiles, career_goal_logs, process,
                   profile, local, response, logged, traversal, booster>>

\* save_learning_path: the delete raises, the insert is not reached.
DeletePathsFails(r) ==
    /\ pc[r] = "delete_paths"
    /\ HelperFailed(r, save_learning_path_except(APIError(pc[r])), "select_goal")
    /\ UNCHANGED <<store, process, profile, local, traversal, booster>>

\* save_learning_path: the insert succeeds.
InsertPath(r) ==
    /\ pc[r] = "insert_path"
    /\ learning_paths' = insert_path(learning_paths, profile[r].learner_id,
                            local[r].filtered_path, local[r].course_scores,
                            local[r].reasoning)
    /\ pc' = [pc EXCEPT ![r] = "select_goal"]
    /\ UNCHANGED <<courses_table, learner_profiles, career_goal_logs, process,
                   profile, local, response, logged, traversal, booster>>

\* save_learning_path: the insert raises.
InsertPathFails(r) ==
    /\ pc[r] = "insert_path"
    /\ HelperFailed(r, save_learning_path_except(APIError(pc[r])), "select_goal")
    /\ UNCHANGED <<store, process, profile, local, traversal, booster>>

\* log_career_goal: the select succeeds;
\* current = response.data[0]["frequency"] if response.data else 0.
SelectGoal(r) ==
    /\ pc[r] = "select_goal"
    /\ LET data == {row \in career_goal_logs : row.career_goal = profile[r].career_goal}
       IN local' = [local EXCEPT ![r].current =
                        IF data # {} THEN (CHOOSE row \in data : TRUE).frequency ELSE 0]
    /\ pc' = [pc EXCEPT ![r] = "upsert_goal"]
    /\ UNCHANGED <<store, process, profile, response, logged, traversal, booster>>

\* log_career_goal: the select raises, the upsert is not reached.
SelectGoalFails(r) ==
    /\ pc[r] = "select_goal"
    /\ HelperFailed(r, log_career_goal_except(APIError(pc[r])), "respond")
    /\ UNCHANGED <<store, process, profile, local, traversal, booster>>

\* log_career_goal: the upsert succeeds.
UpsertGoal(r) ==
    /\ pc[r] = "upsert_goal"
    /\ career_goal_logs' = upsert(career_goal_logs,
                                [career_goal |-> profile[r].career_goal,
                                 frequency |-> local[r].current + 1], "career_goal")
    /\ pc' = [pc EXCEPT ![r] = "respond"]
    /\ UNCHANGED <<courses_table, learner_profiles, learning_paths, process,
                   profile, local, response, logged, traversal, booster>>

\* log_career_goal: the upsert raises.
UpsertGoalFails(r) ==
    /\ pc[r] = "upsert_goal"
    /\ HelperFailed(r, log_career_goal_except(APIError(pc[r])), "respond")
    /\ UNCHANGED <<store, process, profile, local, traversal, booster>>

\* return LearningPathResponse(...)
Respond(r) ==
    /\ pc[r] = "respond"
    /\ response' = [response EXCEPT ![r] = LearningPathResponse(local[r])]
    /\ pc' = [pc EXCEPT ![r] = "done"]
    /\ UNCHANGED <<store, process, profile, local, logged, traversal, booster>>

\* --------------------------------------------------------- traversal
\* The traversal of generate_learning_path statement by statement.  A frame
\* of `calls` is one call of dfs: its node, the successors its loop has yet
\* to visit, and whether it is past `visited.add(node)`.
Frame(node) == [node |-> node, todo |-> <<>>, entered |-> FALSE]
Top == calls[Len(calls)]
Pop == SubSeq(calls, 1, Len(calls) - 1)

\* for idx in sorted_indices: if idx not in visited: dfs(idx)
NextRoot ==
    /\ at = "roots" /\ calls = <<>> /\ roots # <<>>
    /\ roots' = Tail(roots)
    /\ calls' = IF Head(roots) \in visited THEN calls ELSE <<Frame(Head(roots))>>
    /\ UNCHANGED <<at, G, course_scores, visited, path_stack>>
    /\ UNCHANGED <<store, process, requests, booster>>

\* A wrong entry of dfs: the node is not marked on entry (it counts as
\* visited only once appended), so a cycle is followed round and round.
EnterUnmarked ==
    /\ at = "roots" /\ calls # <<>> /\ ~Top.entered
    /\ IF Top.node \in Range(path_stack)
       THEN calls' = Pop
       ELSE calls' = [calls EXCEPT ![Len(calls)] =
                        [node |-> Top.node, todo |-> G[Top.node], entered |-> TRUE]]
    /\ UNCHANGED <<at, G, course_scores, roots, visited, path_stack>>
    /\ UNCHANGED <<store, process, requests, booster>>

\* if node in visited: return
\* visited.add(node)
Enter ==
    /\ at = "roots" /\ calls # <<>> /\ ~Top.entered
    /\ IF Top.node \in visited
       THEN /\ calls' = Pop
            /\ UNCHANGED visited
       ELSE /\ visited' = visited \cup {Top.node}
            /\ calls' = [calls EXCEPT ![Len(calls)] =
                            [node |-> Top.node, todo |-> G[Top.node], entered |-> TRUE]]
    /\ UNCHANGED <<at, G, course_scores, roots, path_stack>>
    /\ UNCHANGED <<store, process, requests, booster>>

\* for prereq in G.successors(node): dfs(prereq)
VisitPrereq ==
    /\ at = "roots" /\ calls # <<>> /\ Top.entered /\ Top.todo # <<>>
    /\ Len(calls) < MaxDepth
    /\ calls' = Append([calls EXCEPT ![Len(calls)].todo = Tail(@)], Frame(Head(Top.todo)))
    /\ UNCHANGED <<at, G, course_scores, roots, visited, path_stack>>
    /\ UNCHANGED <<store, process, requests, booster>>

\* path_stack.append(node), and dfs returns
AppendNode ==
    /\ at = "roots" /\ calls # <<>> /\ Top.entered /\ Top.todo = <<>>
    /\ path_stack' = Append(path_stack, Top.node)
    /\ calls' = Pop
    /\ UNCHANGED <<at, G, course_scores, roots, visited>>
    /\ UNCHANGED <<store, process, requests, booster>>

\* path_stack.reverse(), after the loop over sorted_indices
ReverseStack ==
    /\ at = "roots" /\ calls = <<>> /\ roots = <<>>
    /\ path_stack' = Reverse(path_stack)
    /\ at' = "reversed"
    /\ UNCHANGED <<G, course_scores, roots, visited, calls>>
    /\ UNCHANGED <<store, process, requests, booster>>

\* ------------------------------------------------------------ booster
\* The boosting loop on two courses a and b of the catalog.
ApplyBoost ==
    /\ booster.at = "combined"
    /\ booster' = [booster EXCEPT
            !.at = "boosted",
            !.a.score = boosted(booster.a.combined, booster.a.education_level,
                                booster.a.difficulty_level, booster.education_level),
            !.b.score = boosted(booster.b.combined, booster.b.education_level,
                                booster.b.difficulty_level, booster.education_level)]
    /\ UNCHANGED <<store, process, requests, traversal>>

\* ------------------------------------------------------ specifications
IdleRequests ==
    /\ pc = [r \in Requests |-> "idle"]
    /\ profile = [r \in Requests |-> CHOOSE p \in Profiles : TRUE]
    /\ local = [r \in Requests |-> NoLocals]
    /\ response = [r \in Requests |-> NoResponse]
    /\ logged = [r \in Requests |-> <<>>]

IdleStore ==
    /\ courses_table = <<>>
    /\ learner_profiles = {}
    /\ learning_paths = [rows |-> <<>>, next_id |-> 1]
    /\ career_goal_logs = {}

IdleProcess == tfidf_vectorizer = NoVectorizer /\ semantic_model = FALSE

IdleTraversal ==
    /\ at = "idle" /\ G = <<>> /\ course_scores = <<>> /\ roots = <<>>
    /\ visited = {} /\ path_stack = <<>> /\ calls = <<>>

IdleBooster == booster = [at |-> "idle"]

\* A path of learner u1 saved by an earlier request.
EarlierPaths ==
    [rows |-> <<[id |-> 1, learner_id |-> "u1", course_sequence |-> <<>>,
                 relevance_scores |-> <<>>, reasoning |-> NoReasoning]>>,
     next_id |-> 2]

\* One request against a datastore whose calls may fail.
Init ==
    /\ courses_table \in SmallCatalogs(MaxCourses, MaxRefs, 0..(Len(CourseKinds) - 1))
                            \cup LargeCatalogs
    /\ learner_profiles = {}
    /\ learning_paths \in {[rows |-> <<>>, next_id |-> 1], EarlierPaths}
    /\ career_goal_logs = {}
    /\ IdleProcess
    /\ pc = [r \in Requests |-> IF r = 1 THEN "save_learner_profile" ELSE "idle"]
    /\ profile \in {[r \in Requests |-> p] : p \in {q \in Profiles : q.learner_id = "u1"}}
    /\ local = [r \in Requests |-> NoLocals]
    /\ response = [r \in Requests |-> NoResponse]
    /\ logged = [r \in Requests |-> <<>>]
    /\ IdleTraversal
    /\ IdleBooster

Next ==
    \E r \in Requests :
        \/ SaveProfile(r) \/ SaveProfileFails(r)
        \/ FetchCourses(r) \/ FetchCoursesFails(r)
        \/ Score(r)
        \/ DeletePaths(r) \/ DeletePathsFails(r)
        \/ InsertPath(r) \/ InsertPathFails(r)
        \/ SelectGoal(r) \/ SelectGoalFails(r)
        \/ UpsertGoal(r) \/ UpsertGoalFails(r)
        \/ Respond(r)

Spec == Init /\ [][Next]_vars

\* Several requests in flight against a datastore whose calls succeed.  The
\* requests take turns between datastore calls; one process serves them.
InitConcurrent ==
    /\ courses_table \in SmallCatalogs(1, 0, 0..(Len(CourseKinds) - 1))
    /\ learner_profiles = {}
    /\ learning_paths \in {[rows |-> <<>>, next_id |-> 1], EarlierPaths}
    /\ career_goal_logs = {}
    /\ IdleProcess
    /\ pc = [r \in Requests |-> "save_learner_profile"]
    /\ profile \in [Requests -> Profiles]
    /\ local = [r \in Requests |-> NoLocals]
    /\ response = [r \in Requests |-> NoResponse]
    /\ logged = [r \in Requests |-> <<>>]
    /\ IdleTraversal
    /\ IdleBooster

NextConcurrent ==
    \E r \in Requests :
        \/ SaveProfile(r) \/ FetchCourses(r) \/ Score(r)
        \/ DeletePaths(r) \/ InsertPath(r)
        \/ SelectGoal(r) \/ UpsertGoal(r)
        \/ Respond(r)

SpecConcurrent == InitConcurrent /\ [][NextConcurrent]_vars

\* The traversal alone, on every small prerequisite graph, with the scores
\* all equal (roots in catalog order) or rising (roots in reverse order).
InitTraversal ==
    /\ IdleStore /\ IdleProcess /\ IdleRequests /\ IdleBooster
    /\ \E catalog \in SmallCatalogs(MaxDfsCourses, MaxDfsRefs, {0}), rising \in BOOLEAN :
        /\ G = build_graph(catalog)
        /\ course_scores = [i \in 0..(Len(catalog) - 1) |-> IF rising THEN i ELSE 0]
        /\ roots = sorted_indices([i \in 0..(Len(catalog) - 1) |-> IF rising THEN i ELSE 0])
    /\ at = "roots" /\ visited = {} /\ path_stack = <<>> /\ calls = <<>>

NextTraversal == NextRoot \/ Enter \/ VisitPrereq \/ AppendNode \/ ReverseStack

SpecTraversal == InitTraversal /\ [][NextTraversal]_vars

\* The interpreter runs the traversal to its end.
FairTraversal == SpecTraversal /\ WF_vars(NextTraversal)

\* The boosting loop alone: every learner level, every pair of courses and
\* every combined score of the lexical and semantic similarities below.
EducationLevels == {"High School", "Undergraduate", "Graduate", "Professional", ""}
DifficultyLevels == {"Beginner", "Intermediate", "Advanced", ""}
TfidfValues == {0, 50, 100}
SemanticValues == {-100, -50, 0, 50, 100}

InitBooster ==
    /\ IdleStore /\ IdleProcess /\ IdleRequests /\ IdleTraversal
    /\ booster \in
        {[at |-> "combined", education_level |-> level,
          a |-> [combined |-> combined(t, s), score |-> 0,
                 education_level |-> ea, difficulty_level |-> d],
          b |-> [combined |-> combined(t, s), score |-> 0,
                 education_level |-> eb, difficulty_level |-> d]] :
            level \in EducationLevels \cup {"PhD"}, t \in TfidfValues, s \in SemanticValues,
            ea \in EducationLevels, eb \in EducationLevels, d \in DifficultyLevels}

NextBooster == ApplyBoost

SpecBooster == InitBooster /\ [][NextBooster]_vars

\* ============================================================ claims
\* The requests that have returned a path (status 200).
Returned == {r \in Requests : pc[r] = "done" /\ response[r].status_code = 200}

\* The position of x in the sequence s that holds it.
PositionIn(s, x) == CHOOSE k \in DOMAIN s : s[k] = x

\* The nodes that a path of one or more edges of g leads to from the nodes
\* of `from`.
RECURSIVE ReachableFrom(_, _, _)
ReachableFrom(g, from, seen) ==
    LET next == UNION {Range(g[n]) : n \in from} \ seen
    IN IF next = {} THEN seen ELSE ReachableFrom(g, next, seen \cup next)

\* A cycle of g passes through both ends of its edge c -> p: p leads back
\* to c (or is c itself).
OnCycle(g, c, p) == p = c \/ c \in ReachableFrom(g, {p}, {})

HasEdges(g) == \E n \in DOMAIN g : g[n] # <<>>

\* C1.  Prerequisite ordering: for every edge C -> P of the built graph that
\* lies on no cycle, if both courses are in the returned learning_path then
\* P comes strictly before C.
PrerequisiteOrdering ==
    \A r \in Returned :
        LET courses == local[r].courses
            g == build_graph(courses)
            path == response[r].learning_path
        IN \A c \in DOMAIN g : \A p \in Range(g[c]) :
            (/\ ~OnCycle(g, c, p)
             /\ courses[c + 1].id \in Range(path)
             /\ courses[p + 1].id \in Range(path))
            => PositionIn(path, courses[p + 1].id) < PositionIn(path, courses[c + 1].id)

\* C2.  Empty catalog: when the fetch returns no courses the caller gets the
\* 404 failure, not the 500 one, and the engine has scored, selected and
\* saved nothing.
EmptyCatalogIsNotFound ==
    \A r \in Requests :
        (pc[r] = "done" /\ response[r].detail = "No courses found in database")
        => /\ response[r].status_code = 404
           /\ local[r].course_scores = <<>> /\ local[r].path_stack = <<>>
           /\ \A k \in DOMAIN learning_paths.rows :
                learning_paths.rows[k].reasoning = NoReasoning

\* C3.  Score priority: without prerequisite edges the returned path lists
\* the positive-score courses in descending score order, and the courses it
\* keeps are the highest-scoring ones.
ScoreDescendingWithoutEdges ==
    \A r \in Returned :
        LET courses == local[r].courses
            scores == local[r].course_scores
            id_map == course_id_map(courses)
            path == response[r].learning_path
            inpath == {id_map[path[k]] : k \in DOMAIN path}
        IN ~HasEdges(build_graph(courses))
           => /\ \A k, l \in DOMAIN path :
                    k < l => scores[id_map[path[k]]] >= scores[id_map[path[l]]]
              /\ \A i \in DOMAIN scores \ inpath : \A j \in inpath :
                    scores[i] > 0 => scores[i] <= scores[j]

\* C4.  Score map coherence: every key of the returned scores map is an
\* element of the returned learning_path.
ScoreMapWithinPath ==
    \A r \in Returned :
        DOMAIN response[r].scores \subseteq Range(response[r].learning_path)

\* What generate_learning_path returns for a catalog and a profile when no
\* datastore call fails.
ResultOf(courses, learner) ==
    LET docs == documents(courses, learner)
        vocabulary == UNION {Tokens(docs[i]) : i \in DOMAIN docs}
        tfidf == [i \in 0..(Len(courses) - 1) |->
                    cosine_similarity(Tokens(learner_text(learner)) \cap vocabulary,
                                      Tokens(course_text(courses[i + 1])) \cap vocabulary)]
    IN IF courses = <<>>
       THEN [NoResponse EXCEPT !.status_code = 500,
                               !.detail = "No courses found in database"]
       ELSE IF vocabulary = {}
       THEN [NoResponse EXCEPT !.status_code = 500, !.detail = "empty vocabulary"]
       ELSE LearningPathResponse(select_path(courses, learner, tfidf))

\* C5.  Collaborator failures: whichever of the profile upsert, the path
\* delete or insert and the career-goal read or upsert fail, a request for
\* a non-empty catalog returns what it returns when none of them fails.
CollaboratorFailuresLeaveResult ==
    \A r \in Requests :
        (pc[r] = "done" /\ courses_table # <<>> /\ response[r].detail # "fetch_courses")
        => response[r] = ResultOf(courses_table, profile[r])

\* C5, its case: a request whose three helpers all failed has returned a
\* path of several courses.
CollaboratorsAllFailed ==
    \E r \in Returned :
        /\ Len(logged[r]) = 3
        /\ Len(response[r].learning_path) > 1

\* C7.  Persisted score map: the keys of the relevance scores of a saved
\* path record are the ids of the courses of its saved course sequence.
PersistedScoreKeysAreCourseIds ==
    \A k \in DOMAIN learning_paths.rows :
        LET row == learning_paths.rows[k]
        IN DOMAIN row.relevance_scores
            \subseteq {str_id(id) : id \in Range(row.course_sequence)}

\* Every catalog index is on the output stack, and none of them twice.
EachIndexOnce ==
    /\ Len(path_stack) = Cardinality(DOMAIN G)
    /\ Range(path_stack) = DOMAIN G

\* C6.  Cycle safety: on every prerequisite graph, with mutual
\* prerequisites, longer cycles and self-references, the traversal comes to
\* its end, and at its end every catalog index has been appended to the
\* output stack exactly once.
CycleSafety ==
    /\ <>(at = "reversed")
    /\ [](at = "reversed" => EachIndexOnce)

\* C6, its case: the traversal has ended on a graph with a cycle through
\* three courses.
TraversedLongCycle ==
    /\ at = "reversed"
    /\ \E a, b, c \in DOMAIN G :
        /\ a # b /\ b # c /\ a # c
        /\ b \in Range(G[a]) /\ c \in Range(G[b]) /\ a \in Range(G[c])

\* The course of the booster's pair satisfies the education-match rule.
EducationMatches(c) ==
    Abs(level_mapping(c.education_level, DefaultLevel)
        - level_mapping(booster.education_level, DefaultLevel)) <= 1

\* Courses a and b have the same combined score and difficulty level, and a
\* satisfies the education-match rule while b does not.
MatchAgainstNoMatch ==
    /\ booster.at = "boosted"
    /\ booster.a.combined = booster.b.combined
    /\ booster.a.difficulty_level = booster.b.difficulty_level
    /\ EducationMatches(booster.a) /\ ~EducationMatches(booster.b)

\* C8.  Boost monotonicity, as claimed: whatever the combined score, zero
\* and negative ones included, the matching course's boosted score is
\* strictly greater.
BoostMonotonicity ==
    MatchAgainstNoMatch => booster.a.score > booster.b.score

\* C8, amended: the matching course's boosted score is strictly greater
\* when the combined score is positive, equal when it is zero, strictly
\* smaller when it is negative.
BoostMonotonicityBySign ==
    MatchAgainstNoMatch =>
        /\ booster.a.combined > 0 => booster.a.score > booster.b.score
        /\ booster.a.combined = 0 => booster.a.score = booster.b.score
        /\ booster.a.combined < 0 => booster.a.score < booster.b.score

\* C8, its case: a matching course one level from the learner against a
\* course that does not match, both with a positive combined score.
BoostedPositivePair ==
    /\ MatchAgainstNoMatch
    /\ booster.a.combined > 0
    /\ booster.a.education_level # booster.education_level

\* The requests that are past the fit of the vectorizer.
Scored == {r \in Requests : pc[r] \in {"delete_paths", "insert_path", "select_goal",
                                         "upsert_goal", "respond"}}

\* The vocabulary of a fit on the request's own course texts and learner
\* text.
OwnVocabulary(r) ==
    LET docs == documents(local[r].courses, profile[r])
    IN UNION {Tokens(docs[i]) : i \in DOMAIN docs}

\* C9.  Vectorizer isolation: the lexical similarities of every request are
\* those under the vocabulary fitted on its own course texts and learner
\* text, whatever the other requests in flight have fitted.
VectorizerIsolation ==
    \A r \in Scored :
        local[r].tfidf_similarities =
            [i \in 0..(Len(local[r].courses) - 1) |->
                cosine_similarity(
                    Tokens(learner_text(profile[r])) \cap OwnVocabulary(r),
                    Tokens(course_text(local[r].courses[i + 1])) \cap OwnVocabulary(r))]

\* C9, its case: a request in flight has its similarities while the
\* process's vectorizer holds the vocabulary another request fitted since,
\* under which its similarities would differ.
RefittedByAnother ==
    \E r \in Scored :
        /\ tfidf_vectorizer.vocabulary # OwnVocabulary(r)
        /\ \E i \in DOMAIN local[r].tfidf_similarities :
            local[r].tfidf_similarities[i] #
                cosine_similarity(
                    Tokens(learner_text(profile[r])) \cap tfidf_vectorizer.vocabulary,
                    Tokens(course_text(local[r].courses[i + 1])) \cap tfidf_vectorizer.vocabulary)

\* The rows of learning_paths of learner u.
PathsOf(u) == SelectSeq(learning_paths.rows, LAMBDA row : row.learner_id = u)

\* C10.  Path upsert: once every save_learning_path call has completed,
\* all datastore calls having succeeded, the table holds exactly one record
\* for each learner saved for, the one inserted last for that learner.
OnePathRecordLatestWins ==
    (\A r \in Requests : pc[r] \in {"select_goal", "upsert_goal", "respond", "done"}
                          /\ response[r].status_code \in {0, 200})
    => \A u \in {profile[r].learner_id : r \in Requests} :
        /\ Len(PathsOf(u)) = 1
        /\ \A k \in DOMAIN learning_paths.rows :
            learning_paths.rows[k].learner_id = u
            => learning_paths.rows[k].id <= PathsOf(u)[1].id

====
